---------------------------- MODULE Spec2Model ----------------------------
(***************************************************************************)
(* Model of src/middleware.js: the express middleware that compiles a Sass *)
(* source on request.  One request is a chain of event-loop callbacks;     *)
(* every action below is one synchronous run of the handler or of one of   *)
(* its callbacks.  The Import Ledger is the module-level `imports` object. *)
(*                                                                         *)
(* Strings are tuples of one-character strings, so that the extension      *)
(* test, the prefix test and the path joins are computed as the code       *)
(* computes them.  Options `root`, `indentedSyntax`, `debug`, `log`,       *)
(* `beepOnError` are left at their defaults.                               *)
(***************************************************************************)
EXTENDS Integers, Sequences, FiniteSets

(* ------------------------------ bounds -------------------------------- *)

\* request slots: requests whose callbacks may be outstanding together
MaxReqs == 2
\* requests served one after the other in a run of Spec
MaxSeq == 1
\* requests served in a run of SpecRace
MaxServed == 3
\* modification times are 0 .. MaxTime
MaxTime == 2
\* requests served in a run of SpecLive
MaxLive == 2
\* modification time of an output file that exists initially
BaseTime == 1
\* changes the outside world makes to the source while requests run
MaxEnv == 1
\* number of include files the compile capability may report
NumInc == 2

(* ------------------------------ strings ------------------------------- *)

CssExt == <<".", "c", "s", "s">>
sassExtension == <<".", "s", "c", "s", "s">>
MapExt == <<".", "m", "a", "p">>

EndsWith(s, suf) ==
  /\ Len(s) >= Len(suf)
  /\ SubSeq(s, Len(s) - Len(suf) + 1, Len(s)) = suf

\* s.indexOf(pre) === 0
StartsWith(s, pre) ==
  /\ Len(s) >= Len(pre)
  /\ SubSeq(s, 1, Len(pre)) = pre

\* s.substring(n)
Substring(s, n) == SubSeq(s, n + 1, Len(s))

\* s.replace(/\.css$/, sassExtension)
ReplaceCssExt(s) ==
  IF EndsWith(s, CssExt)
    THEN SubSeq(s, 1, Len(s) - Len(CssExt)) \o sassExtension
    ELSE s

\* path.join of a directory and a request path
join(dir, p) ==
  IF p # <<>> /\ p[1] = "/" THEN dir \o p ELSE dir \o <<"/">> \o p

(* --------------------------- configuration ---------------------------- *)

Undef == "undefined"
NoErr == "null"
NoData == 0

src == <<"s">>
dest == <<"d">>

Prefixes == {<<>>, <<"/", "p">>}
ConfiguredMaxAge == 5

\* the options object: `response` may be omitted, an omitted `prefix` or
\* `maxAge` is the empty tuple
Options ==
  [force : BOOLEAN, response : {"true", "false", Undef},
   sourceMap : BOOLEAN, prefix : Prefixes, maxAge : {<<>>, <<ConfiguredMaxAge>>}]

(* ------------------------------ requests ------------------------------ *)

Reqs == 1 .. MaxReqs
Methods == {"GET", "HEAD", "POST"}
ReqPaths ==
  { <<"/", "a", ".", "c", "s", "s">>,
    <<"/", "a", ".", "t", "x", "t">>,
    <<"/", "p", "/", "a", ".", "c", "s", "s">>,
    <<"/", "o", "/", "a", ".", "c", "s", "s">> }

\* the files of the modelled file system
SassFile == <<"s", "/", "a", ".", "s", "c", "s", "s">>
CssFile == <<"d", "/", "a", ".", "c", "s", "s">>
IncNames == <<"b", "c", "e", "f">>
IncPath(i) == <<"s", "/", "_", IncNames[i]>>
IncPaths == {IncPath(i) : i \in 1 .. NumInc}
\* result.stats.includedFiles: the lists the compile capability may report
IncludeLists == {[i \in 1 .. n |-> IncPath(i)] : n \in 0 .. NumInc}

VARIABLES
  options,   \* the options the middleware was created with
  imports,   \* the Import Ledger: sassPath -> includedFiles or Undef
  fs,        \* existing files: path -> [mtime, data]
  denied,    \* paths whose stat fails with an error other than ENOENT
  env,       \* number of outside changes made to the files so far
  served,    \* number of requests that have arrived so far
  failed,    \* sources whose compile failure was reported with no request since
  reqs       \* per slot: the handler's locals and what it has signalled

vars == <<options, imports, fs, denied, env, served, failed, reqs>>

(* ------------------------- derived configuration ---------------------- *)

\* var force = options.force || options.response
force == options.force \/ options.response = "true"

\* var sourceMap = options.sourceMap || null
sourceMap == options.sourceMap

\* var maxAge = options.maxAge || 0
maxAge == IF options.maxAge = <<>> THEN 0 ELSE options.maxAge[1]

(* ----------------------------- file system ---------------------------- *)

\* fs.stat(p, cb): what the callback receives
Stat(p) ==
  IF p \in denied THEN [err |-> "EACCES", mtime |-> 0]
  ELSE IF p \in DOMAIN fs THEN [err |-> NoErr, mtime |-> fs[p].mtime]
  ELSE [err |-> "ENOENT", mtime |-> 0]

\* fs.exists(p, cb)
Exists(p) == Stat(p).err = NoErr

\* the time that stamps the writes of a run: no file is newer
Now == MaxTime

\* fs.writeFile(p, data, cb) that succeeded
WriteFile(f, p, data) ==
  [x \in DOMAIN f \cup {p} |->
     IF x = p THEN [mtime |-> Now, data |-> data] ELSE f[x]]

(* ------------------------------- ledger ------------------------------- *)

UndefEntry == [resolved |-> FALSE, nodes |-> <<>>]
Entry(list) == [resolved |-> TRUE, nodes |-> list]

\* imports[p]
Lookup(p) == IF p \in DOMAIN imports THEN imports[p] ELSE UndefEntry

\* imports[p] = e
Assign(p, e) ==
  [x \in DOMAIN imports \cup {p} |-> IF x = p THEN e ELSE imports[x]]

(* --------------------------- request records -------------------------- *)

NoResp == [status |-> 0, contentType |-> "", maxAge |-> 0, body |-> NoData]

IdleReq ==
  [pc |-> "idle", method |-> "", url |-> <<>>,
   sassPath |-> <<>>, cssPath |-> <<>>,
   sassMtime |-> 0, time |-> 0,
   nodes |-> <<>>, waiting |-> {}, pending |-> 0, changed |-> <<>>,
   sassMiddlewareError |-> NoErr,
   reading |-> NoData, data |-> NoData,
   cssDone |-> TRUE, sourceMapDone |-> TRUE,
   cssBranch |-> "none", mapBranch |-> "none",
   \* what the request has done so far, as seen from outside
   nexts |-> 0, nextArg |-> NoErr, resWrites |-> 0, resp |-> NoResp,
   hookLog |-> <<>>, compiles |-> 0, renders |-> 0, fsOps |-> 0, stats |-> 0,
   writes |-> 0,
   decidedBy |-> "none",
   \* the request arrived while a compile of its source was in flight
   midCompile |-> FALSE]

\* callbacks of the request are still outstanding
InFlight(q) ==
  \/ q.pc \in {"statSass", "statCss", "exists", "render"}
  \/ q.waiting # {}
  \/ q.cssBranch \in {"mkdir", "write"}
  \/ q.mapBranch \in {"mkdir", "write"}

\* next(e)
CallNext(q, e) ==
  [q EXCEPT !.pc = "done", !.nexts = @ + 1, !.nextArg = e]

\* mutant: the slot keeps the first error it was given
errorKeepFirst(q, e) ==
  [q EXCEPT !.sassMiddlewareError = IF @ = NoErr THEN e ELSE @,
            !.hookLog = Append(@, e)]

\* the local function error(err)
error(q, e) ==
  [q EXCEPT !.sassMiddlewareError = e, !.hookLog = Append(@, e)]

\* mutant: the configured max-age is not sent
RespondNoMaxAge(q) ==
  [q EXCEPT !.pc = "done", !.resWrites = @ + 1,
            !.resp = [status |-> 200, contentType |-> "text/css",
                      maxAge |-> 0, body |-> q.data]]

\* res.writeHead(200, ...); res.end(data)
Respond(q) ==
  [q EXCEPT !.pc = "done", !.resWrites = @ + 1,
            !.resp = [status |-> 200, contentType |-> "text/css",
                      maxAge |-> maxAge, body |-> q.data]]

\* the local function compile(): issues fs.exists(sassPath)
compile(q, why) ==
  [q EXCEPT !.pc = "exists", !.compiles = @ + 1, !.fsOps = @ + 1,
            !.decidedBy = why]

\* the request's path matches: GET or HEAD, ends in .css, carries the prefix
Applicable(m, u) ==
  /\ m \in {"GET", "HEAD"}
  /\ EndsWith(u, CssExt)
  /\ options.prefix # <<>> => StartsWith(u, options.prefix)

\* path after the prefix is stripped
StripPrefix(u) ==
  IF options.prefix # <<>> THEN Substring(u, Len(options.prefix)) ELSE u

CssPathOf(u) == join(dest, StripPrefix(u))
SassPathOf(u) == join(src, ReplaceCssExt(StripPrefix(u)))

\* mutant: every method is handled
MethodAny(m) == TRUE

\* req.method is GET or HEAD
MethodOk(m) == ~(m # "GET" /\ m # "HEAD")

\* mutant: the cold-ledger test is skipped
LedgerMissingNever(p) == FALSE

\* !imports[sassPath]
LedgerMissing(p) == ~Lookup(p).resolved

\* the synchronous part of sass(req, res, next)
sass(q, m, u) ==
  LET q0 == [q EXCEPT !.method = m, !.url = u] IN
  IF ~MethodOk(m) THEN CallNext(q0, NoErr)
  ELSE IF ~EndsWith(u, CssExt) THEN CallNext(q0, NoErr)
  ELSE IF options.prefix # <<>> /\ ~StartsWith(u, options.prefix)
    THEN CallNext(q0, NoErr)
  ELSE
    LET q1 == [q0 EXCEPT !.cssPath = CssPathOf(u), !.sassPath = SassPathOf(u)] IN
    IF force THEN compile(q1, "force")
    ELSE IF LedgerMissing(q1.sassPath) THEN compile(q1, "ledger")
    ELSE [q1 EXCEPT !.pc = "statSass", !.fsOps = @ + 1, !.stats = @ + 1]

\* mutant: the barrier waits for one flag only
doneWritingEither(q) ==
  IF ~q.cssDone /\ ~q.sourceMapDone THEN q
  ELSE IF options.response = "false" THEN CallNext(q, q.sassMiddlewareError)
  ELSE Respond(q)

\* mutant: the slot is not passed on when delegating
doneWritingNoError(q) ==
  IF ~q.cssDone \/ ~q.sourceMapDone THEN q
  ELSE IF options.response = "false" THEN CallNext(q, NoErr)
  ELSE Respond(q)

\* doneWriting()
doneWriting(q) ==
  IF ~q.cssDone \/ ~q.sourceMapDone THEN q
  ELSE IF options.response = "false" THEN CallNext(q, q.sassMiddlewareError)
  ELSE Respond(q)

\* mutant: an include as old as the output counts as unchanged
ImportChangedStrict(st, time) == st.err # NoErr \/ st.mtime > time

\* mutant: an include whose stat fails counts as unchanged
ImportChangedNoErr(st, time) == st.err = NoErr /\ st.mtime >= time

\* an include counts as changed: stat error or mtime >= the output's
ImportChanged(st, time) == st.err # NoErr \/ st.mtime >= time

\* mutant: a source as old as the output counts as changed
SourceChangedOrEqual(sassMtime, cssMtime) == sassMtime >= cssMtime

\* the source counts as changed: mtime > the output's
SourceChanged(sassMtime, cssMtime) == sassMtime > cssMtime

\* checkImports(path, time, fn) with fn the callback of lines 311-318
checkImports(q, time) ==
  LET nodes == Lookup(q.sassPath) IN
  IF ~nodes.resolved \/ Len(nodes.nodes) = 0
    THEN CallNext([q EXCEPT !.decidedBy = "uptodate"], NoErr)
    ELSE [q EXCEPT !.pc = "checkImports", !.time = time,
                   !.nodes = nodes.nodes,
                   !.pending = Len(nodes.nodes),
                   !.waiting = 1 .. Len(nodes.nodes),
                   !.changed = <<>>,
                   !.fsOps = @ + Len(nodes.nodes),
                   !.stats = @ + Len(nodes.nodes)]

\* mutant: the countdown fires one stat early as well
AllReportedEarly(q) == q.pending <= 1

\* mutant: the countdown expects one report more than there are stats
AllReportedOff(q) == q.pending = 0 - 1

\* --pending || ... : the last stat has reported
AllReported(q) == q.pending = 0

\* changed && changed.length ? compile() : next()
AfterImports(q) ==
  IF Len(q.changed) > 0 THEN compile(q, "import")
  ELSE CallNext([q EXCEPT !.decidedBy = "uptodate"], NoErr)

(* ------------------------------- initial ------------------------------ *)

Times == 0 .. MaxTime
SourceRecord(t) == [mtime |-> t, data |-> 1]
PlainRecord(t) == [mtime |-> t, data |-> NoData]

\* a file is absent or present with some modification time
FileChoices == {<<>>} \cup {<<t>> : t \in Times}

\* the files before a request: every combination of source, output, includes
InitFiles ==
  { [x \in (IF s = <<>> THEN {} ELSE {SassFile})
           \cup (IF c THEN {CssFile} ELSE {})
           \cup {IncPath(i) : i \in {j \in 1 .. NumInc : n[j] # <<>>}} |->
       IF x = SassFile THEN SourceRecord(s[1])
       ELSE IF x = CssFile THEN PlainRecord(BaseTime)
       ELSE PlainRecord(n[CHOOSE j \in 1 .. NumInc : IncPath(j) = x][1])] :
    s \in FileChoices, c \in BOOLEAN, n \in [1 .. NumInc -> FileChoices] }

\* the ledger between requests: empty as constructed, or as left by a compile
InitLedgers ==
  {<< >>} \cup {[x \in {SassFile} |-> Entry(l)] : l \in IncludeLists}

\* any state the process can be in between two requests
Init ==
  /\ options \in Options
  /\ imports \in InitLedgers
  /\ fs \in InitFiles
  /\ denied \in {d \in SUBSET {CssFile, SassFile} : d \cap DOMAIN fs = {}}
  /\ env = 0
  /\ served = 0
  /\ failed = {}
  /\ reqs = [r \in Reqs |-> IdleReq]

(* ------------------------------- actions ------------------------------ *)

Set(r, q) == reqs' = [reqs EXCEPT ![r] = q]

Quiescent == \A x \in Reqs : ~InFlight(reqs[x])

\* another request is between its ledger clear and its compile callback,
\* for the source that the path u resolves to
CompileInFlight(r, u) ==
  /\ Applicable("GET", u)
  /\ \E x \in Reqs \ {r} :
       reqs[x].pc = "render" /\ reqs[x].sassPath = SassPathOf(u)

\* a request arrives in slot r; the handler runs to its first asynchronous call
Arrive(r, m, u) ==
  /\ ~InFlight(reqs[r])
  /\ Set(r, [sass(IdleReq, m, u) EXCEPT !.midCompile = CompileInFlight(r, u)])
  /\ served' = served + 1
  /\ failed' = IF Applicable(m, u) THEN failed \ {SassPathOf(u)} ELSE failed
  /\ UNCHANGED <<options, imports, fs, denied, env>>

\* a client that waits for each request to complete before the next one
ArriveAlone(m, u) ==
  /\ Quiescent
  /\ served < MaxSeq
  /\ Arrive(1, m, u)

\* callback of fs.stat(sassPath)
StatSassCb(r) ==
  LET q == reqs[r]
      st == Stat(q.sassPath) IN
  /\ q.pc = "statSass"
  /\ IF st.err # NoErr
       THEN Set(r, CallNext([q EXCEPT !.decidedBy = "skip"], NoErr))
       ELSE Set(r, [q EXCEPT !.pc = "statCss", !.sassMtime = st.mtime,
                             !.fsOps = @ + 1, !.stats = @ + 1])
  /\ UNCHANGED <<options, imports, fs, denied, env, served, failed>>

\* mutant: every failure of the output stat leads to compile()
StatCssCbAnyError(r) ==
  LET q == reqs[r]
      st == Stat(q.cssPath) IN
  /\ q.pc = "statCss"
  /\ IF st.err # NoErr THEN Set(r, compile(q, "nooutput"))
     ELSE IF SourceChanged(q.sassMtime, st.mtime)
       THEN Set(r, compile([q EXCEPT !.time = st.mtime], "source"))
     ELSE Set(r, checkImports(q, st.mtime))
  /\ UNCHANGED <<options, imports, fs, denied, env, served, failed>>

\* callback of fs.stat(cssPath)
StatCssCb(r) ==
  LET q == reqs[r]
      st == Stat(q.cssPath) IN
  /\ q.pc = "statCss"
  /\ IF st.err = "ENOENT" THEN Set(r, compile(q, "nooutput"))
     ELSE IF st.err # NoErr
       THEN Set(r, CallNext(error([q EXCEPT !.decidedBy = "error"], st.err), st.err))
     ELSE IF SourceChanged(q.sassMtime, st.mtime)
       THEN Set(r, compile([q EXCEPT !.time = st.mtime], "source"))
     ELSE Set(r, checkImports(q, st.mtime))
  /\ UNCHANGED <<options, imports, fs, denied, env, served, failed>>

\* callback of fs.stat(imported) for the i-th include
ImportStatCb(r, i) ==
  LET q == reqs[r]
      st == Stat(q.nodes[i])
      q1 == [q EXCEPT !.waiting = @ \ {i},
                      !.pending = @ - 1,
                      !.changed = IF ImportChanged(st, q.time)
                                    THEN Append(@, q.nodes[i]) ELSE @] IN
  /\ i \in q.waiting
  /\ Set(r, IF AllReported(q1) THEN AfterImports(q1) ELSE q1)
  /\ UNCHANGED <<options, imports, fs, denied, env, served, failed>>

\* mutant: the ledger entry is cleared before the existence test
ExistsCbClearFirst(r) ==
  LET q == reqs[r] IN
  /\ q.pc = "exists"
  /\ imports' = Assign(q.sassPath, UndefEntry)
  /\ IF ~Exists(q.sassPath)
       THEN Set(r, CallNext(q, NoErr))
       ELSE Set(r, [q EXCEPT !.pc = "render", !.renders = @ + 1,
                             !.reading = fs[q.sassPath].data])
  /\ UNCHANGED <<options, fs, denied, env, served, failed>>

\* mutant: the ledger entry is not cleared before render
ExistsCbNoClear(r) ==
  LET q == reqs[r] IN
  /\ q.pc = "exists"
  /\ IF ~Exists(q.sassPath)
       THEN Set(r, CallNext(q, NoErr))
       ELSE Set(r, [q EXCEPT !.pc = "render", !.renders = @ + 1,
                             !.reading = fs[q.sassPath].data])
  /\ UNCHANGED <<options, imports, fs, denied, env, served, failed>>

\* callback of fs.exists(sassPath) in compile()
ExistsCb(r) ==
  LET q == reqs[r] IN
  /\ q.pc = "exists"
  /\ IF ~Exists(q.sassPath)
       THEN /\ Set(r, CallNext(q, NoErr))
            /\ UNCHANGED imports
       ELSE /\ imports' = Assign(q.sassPath, UndefEntry)
            /\ Set(r, [q EXCEPT !.pc = "render", !.renders = @ + 1,
                                !.reading = fs[q.sassPath].data])
  /\ UNCHANGED <<options, fs, denied, env, served, failed>>

\* mutant: the error hook is not called
DoneErrorSilent(q, e) == CallNext(q, e)

\* the error branch of done(err, result)
DoneError(q, e) == CallNext(error(q, e), e)

\* done(err) : the compile capability reports an error
RenderErrCb(r) ==
  LET q == reqs[r] IN
  /\ q.pc = "render"
  /\ Set(r, DoneError(q, "CompileError"))
  /\ failed' = failed \cup {q.sassPath}
  /\ UNCHANGED <<options, imports, fs, denied, env, served>>

\* the write phase of done(): flags and the mkdir calls
StartWrites(q) ==
  LET q1 == [q EXCEPT !.pc = "writing",
                      !.cssDone = FALSE, !.sourceMapDone = ~sourceMap,
                      !.cssBranch = "mkdir", !.fsOps = @ + 1] IN
  IF sourceMap
    THEN [q1 EXCEPT !.mapBranch = "mkdir", !.fsOps = @ + 1]
    ELSE q1

\* the success branch of done(err, result), after the ledger write
DoneResult(q) ==
  LET q1 == [q EXCEPT !.data = q.reading] IN
  IF options.response = "true" THEN doneWriting(q1) ELSE StartWrites(q1)

\* done(null, result) : the compile capability reports a result
RenderOkCb(r, inc) ==
  LET q == reqs[r] IN
  /\ q.pc = "render"
  /\ imports' = Assign(q.sassPath, Entry(inc))
  /\ Set(r, DoneResult(q))
  /\ UNCHANGED <<options, fs, denied, env, served, failed>>

\* callback of fs.mkdir(dirname(cssPath))
CssMkdirCb(r, ok) ==
  LET q == reqs[r] IN
  /\ q.cssBranch = "mkdir"
  /\ IF ok
       THEN Set(r, [q EXCEPT !.cssBranch = "write", !.fsOps = @ + 1])
       ELSE Set(r, doneWriting([error(q, "MkdirCssError") EXCEPT
                                  !.cssDone = TRUE, !.cssBranch = "done"]))
  /\ UNCHANGED <<options, imports, fs, denied, env, served, failed>>

\* callback of fs.writeFile(cssPath, data)
CssWriteCb(r, ok) ==
  LET q == reqs[r]
      q1 == IF ok THEN [q EXCEPT !.writes = @ + 1] ELSE error(q, "WriteCssError") IN
  /\ q.cssBranch = "write"
  /\ fs' = IF ok THEN WriteFile(fs, q.cssPath, q.data) ELSE fs
  /\ Set(r, doneWriting([q1 EXCEPT !.cssDone = TRUE, !.cssBranch = "done"]))
  /\ UNCHANGED <<options, imports, denied, env, served, failed>>

\* callback of fs.mkdir(dirname(sourceMapPath))
MapMkdirCb(r, ok) ==
  LET q == reqs[r] IN
  /\ q.mapBranch = "mkdir"
  /\ IF ok
       THEN Set(r, [q EXCEPT !.mapBranch = "write", !.fsOps = @ + 1])
       ELSE Set(r, doneWriting([error(q, "MkdirMapError") EXCEPT
                                  !.sourceMapDone = TRUE, !.mapBranch = "done"]))
  /\ UNCHANGED <<options, imports, fs, denied, env, served, failed>>

\* callback of fs.writeFile(sourceMapPath, result.map)
MapWriteCb(r, ok) ==
  LET q == reqs[r]
      q1 == IF ok THEN [q EXCEPT !.writes = @ + 1] ELSE error(q, "WriteMapError") IN
  /\ q.mapBranch = "write"
  /\ fs' = IF ok THEN WriteFile(fs, q.cssPath \o MapExt, q.data) ELSE fs
  /\ Set(r, doneWriting([q1 EXCEPT !.sourceMapDone = TRUE, !.mapBranch = "done"]))
  /\ UNCHANGED <<options, imports, denied, env, served, failed>>

\* the callbacks of the requests in flight
Callbacks ==
  \/ \E r \in Reqs : StatSassCb(r)
  \/ \E r \in Reqs : StatCssCb(r)
  \/ \E r \in Reqs : \E i \in 1 .. NumInc : ImportStatCb(r, i)
  \/ \E r \in Reqs : ExistsCb(r)
  \/ \E r \in Reqs : RenderErrCb(r)
  \/ \E r \in Reqs : \E inc \in IncludeLists : RenderOkCb(r, inc)
  \/ \E r \in Reqs : \E ok \in BOOLEAN : CssMkdirCb(r, ok)
  \/ \E r \in Reqs : \E ok \in BOOLEAN : CssWriteCb(r, ok)
  \/ \E r \in Reqs : \E ok \in BOOLEAN : MapMkdirCb(r, ok)
  \/ \E r \in Reqs : \E ok \in BOOLEAN : MapWriteCb(r, ok)

Next ==
  \/ \E m \in Methods, u \in ReqPaths : ArriveAlone(m, u)
  \/ Callbacks

\* one request at a time, from any state the process can be in
Spec == Init /\ [][Next]_vars

(* ------------------- concurrent requests for one source --------------- *)

\* the request every client of SpecRace sends
RaceUrl == <<"/", "a", ".", "c", "s", "s">>

\* file mode without force, the configuration in which the ledger decides
RaceOptions ==
  {o \in Options : /\ ~o.force /\ o.response = "false"
                   /\ o.prefix = <<>> /\ o.maxAge = <<>>}

RaceFiles ==
  {f \in InitFiles : /\ SassFile \in DOMAIN f /\ f[SassFile].mtime = 0
                     /\ \A p \in IncPaths : p \in DOMAIN f /\ f[p].mtime = 0}

InitRace ==
  /\ options \in RaceOptions
  /\ imports \in InitLedgers
  /\ fs \in RaceFiles
  /\ denied = {}
  /\ env = 0
  /\ served = 0
  /\ failed = {}
  /\ reqs = [r \in Reqs |-> IdleReq]

\* a request arrives while others may be in flight; it takes the first
\* free slot
ArriveRace(r) ==
  /\ served < MaxServed
  /\ \A x \in 1 .. r - 1 : InFlight(reqs[x])
  /\ Arrive(r, "GET", RaceUrl)

\* somebody edits the source: new content, mtime = now
TouchSource ==
  /\ env < MaxEnv
  /\ SassFile \in DOMAIN fs
  /\ fs' = [fs EXCEPT ![SassFile] = [mtime |-> Now, data |-> @.data + 1]]
  /\ env' = env + 1
  /\ UNCHANGED <<options, imports, denied, served, failed, reqs>>

NextRace ==
  \/ \E r \in Reqs : ArriveRace(r)
  \/ Callbacks
  \/ TouchSource

\* clients that do not wait for each other, and an edited source
SpecRace == InitRace /\ [][NextRace]_vars

(* ------------------- every callback eventually fires ------------------ *)

\* every mode
LiveOptions == {o \in Options : o.prefix = <<>> /\ o.maxAge = <<>>}

\* source and output exist, the source is older; the first include is older
\* than the output and the others are missing
LiveFiles ==
  {f \in InitFiles : /\ SassFile \in DOMAIN f /\ f[SassFile].mtime = 0
                      /\ CssFile \in DOMAIN f
                      /\ \A i \in 1 .. NumInc :
                           IF i = 1
                             THEN IncPath(i) \in DOMAIN f /\ f[IncPath(i)].mtime = 0
                             ELSE IncPath(i) \notin DOMAIN f}

InitLive ==
  /\ options \in LiveOptions
  /\ imports \in InitLedgers
  /\ fs \in LiveFiles
  /\ denied = {}
  /\ env = 0
  /\ served = 0
  /\ failed = {}
  /\ reqs = [r \in Reqs |-> IdleReq]

\* a request arrives in the first free slot, others may be in flight
ArriveLive(r) ==
  /\ served < MaxLive
  /\ \A x \in 1 .. r - 1 : InFlight(reqs[x])
  /\ Arrive(r, "GET", RaceUrl)

\* the callbacks of one request
CallbacksOf(r) ==
  \/ StatSassCb(r)
  \/ StatCssCb(r)
  \/ \E i \in 1 .. NumInc : ImportStatCb(r, i)
  \/ ExistsCb(r)
  \/ RenderErrCb(r)
  \/ \E inc \in IncludeLists : RenderOkCb(r, inc)
  \/ \E ok \in BOOLEAN : CssMkdirCb(r, ok)
  \/ \E ok \in BOOLEAN : CssWriteCb(r, ok)
  \/ \E ok \in BOOLEAN : MapMkdirCb(r, ok)
  \/ \E ok \in BOOLEAN : MapWriteCb(r, ok)

NextLive ==
  \/ \E r \in Reqs : ArriveLive(r)
  \/ Callbacks

\* the file system and the compile capability call back every request
SpecLive ==
  /\ InitLive /\ [][NextLive]_vars
  /\ \A r \in Reqs : WF_vars(CallbacksOf(r))

(* ------------------------------- claims ------------------------------- *)

\* the request in the slot is a matching request for the modelled source
ForSource(q) == q.pc # "idle" /\ Applicable(q.method, q.url) /\ q.sassPath = SassFile

\* the request has signalled completion this many times
Signals(q) == q.nexts + q.resWrites

\* a write of the request has been started and has not reported
WritesOutstanding(q) ==
  q.cssBranch \in {"mkdir", "write"} \/ q.mapBranch \in {"mkdir", "write"}

\* the ledger lists includes for the source, source and output can be
\* stat'ed, and the source is not newer than the output
LedgerAndOutputPresent ==
  /\ Lookup(SassFile).resolved
  /\ Stat(SassFile).err = NoErr
  /\ Stat(CssFile).err = NoErr
  /\ Stat(SassFile).mtime <= Stat(CssFile).mtime

\* ... and some listed include is as new as the output or newer
StaleInclude ==
  /\ LedgerAndOutputPresent
  /\ \E i \in 1 .. Len(Lookup(SassFile).nodes) :
       LET st == Stat(Lookup(SassFile).nodes[i]) IN
       st.err = NoErr /\ st.mtime >= Stat(CssFile).mtime

\* ... and every listed include can be stat'ed and is older than the output
Fresh ==
  /\ LedgerAndOutputPresent
  /\ \A i \in 1 .. Len(Lookup(SassFile).nodes) :
       LET st == Stat(Lookup(SassFile).nodes[i]) IN
       st.err = NoErr /\ st.mtime < Stat(CssFile).mtime

\* C1: without force, a request for the source that has completed without
\* invoking the compile capability never leaves the state it found (ledger
\* entry with includes, source not newer than the output) with a listed
\* include whose mtime is >= the output's: such a request compiles.
C1_StaleIncludeCompiles ==
  \A r \in Reqs :
    (~force /\ ForSource(reqs[r]) /\ ~InFlight(reqs[r]) /\ reqs[r].renders = 0)
      => ~StaleInclude

\* C1 witness: the include check found a changed include that exists, with
\* the source not newer than the output, and the compile capability runs
C1_Witness ==
  \E r \in Reqs :
    /\ ~force /\ ForSource(reqs[r])
    /\ reqs[r].pc = "render" /\ reqs[r].renders = 1
    /\ reqs[r].sassMtime <= reqs[r].time
    /\ \E i \in 1 .. Len(reqs[r].changed) :
         /\ Stat(reqs[r].changed[i]).err = NoErr
         /\ Stat(reqs[r].changed[i]).mtime > reqs[r].time

\* the slot r receives a request in this step
Arrives(r) == served' = served + 1 /\ reqs'[r] # reqs[r]

\* C2: a matching request for a source that exists and has no resolved
\* ledger entry calls compile() at once, and the existence check that
\* follows invokes the compile capability, without a single stat.
C2_ColdLedgerCompiles ==
  [][\A r \in Reqs :
       /\ ( /\ Arrives(r)
            /\ Applicable(reqs'[r].method, reqs'[r].url)
            /\ ~Lookup(reqs'[r].sassPath).resolved
            /\ Exists(reqs'[r].sassPath) )
          => ( /\ reqs'[r].pc = "exists" /\ reqs'[r].compiles = 1
               /\ reqs'[r].stats = 0 )
       /\ ( /\ reqs[r].pc = "exists" /\ reqs'[r] # reqs[r]
            /\ Exists(reqs[r].sassPath) )
          => ( /\ reqs'[r].pc = "render" /\ reqs'[r].renders = 1
               /\ reqs'[r].stats = reqs[r].stats )]_vars

\* C2 witness: cold ledger, output present and newer than the source, and
\* the compile capability runs without any stat
C2_Witness ==
  \E r \in Reqs :
    /\ ~force /\ reqs[r].pc = "render" /\ reqs[r].stats = 0
    /\ reqs[r].decidedBy = "ledger"
    /\ Stat(CssFile).err = NoErr
    /\ Stat(CssFile).mtime > Stat(SassFile).mtime

\* no request for the source is past its decision
NoCompileOfSource ==
  \A r \in Reqs :
    reqs[r].sassPath = SassFile =>
      /\ reqs[r].pc \notin {"exists", "render", "writing"}
      /\ ~WritesOutstanding(reqs[r])

\* C3: without force, every step taken from a state where the ledger entry
\* is resolved, the source is not newer than the output, every listed
\* include is older than the output and no request for the source is
\* compiling, changes neither ledger nor files, starts no compile, and a
\* request it completes has delegated to next() without error; the state
\* it leads to satisfies the same condition, so this holds for any number
\* of requests.
C3_Idempotent ==
  [][(~force /\ Fresh /\ NoCompileOfSource)
       => /\ imports' = imports /\ fs' = fs
          /\ Fresh' /\ NoCompileOfSource'
          /\ \A r \in Reqs :
               (ForSource(reqs'[r]) /\ ~InFlight(reqs'[r]) /\ reqs'[r] # reqs[r])
                 => /\ reqs'[r].nexts = 1 /\ reqs'[r].nextArg = NoErr
                    /\ reqs'[r].resWrites = 0 /\ reqs'[r].compiles = 0
                    /\ reqs'[r].renders = 0 /\ reqs'[r].writes = 0]_vars

\* C3 witness: a request found a non-empty include list all older than
\* the output and delegated as up to date
C3_Witness ==
  \E r \in Reqs :
    /\ ~force /\ Fresh /\ ForSource(reqs[r])
    /\ reqs[r].decidedBy = "uptodate" /\ reqs[r].nexts = 1
    /\ Len(reqs[r].nodes) = NumInc /\ reqs[r].changed = <<>>
    /\ reqs[r].sassMtime = reqs[r].time

\* C4: with source maps, when the compiled output is written to files, a
\* request has signalled completion only if both the output branch and
\* the map branch have reported.
C4_Barrier ==
  \A r \in Reqs :
    (sourceMap /\ reqs[r].cssBranch # "none" /\ Signals(reqs[r]) > 0)
      => reqs[r].cssBranch = "done" /\ reqs[r].mapBranch = "done"

\* C4 witness: the map branch failed at mkdir first, the output branch
\* failed at its write later, and the request then completed
C4_Witness ==
  \E r \in Reqs :
    /\ sourceMap /\ reqs[r].nexts = 1
    /\ reqs[r].hookLog = <<"MkdirMapError", "WriteCssError">>

\* C5: a request signals completion (next() or the response) at most once,
\* exactly once when none of its callbacks is outstanding, and never while
\* a write it started has not reported.
C5_CompletesOnce ==
  \A r \in Reqs :
    /\ Signals(reqs[r]) <= 1
    /\ (reqs[r].pc # "idle" /\ ~InFlight(reqs[r])) => Signals(reqs[r]) = 1
    /\ Signals(reqs[r]) = 1 => ~InFlight(reqs[r])

\* C5 witness: a request that checked two includes, compiled, wrote output
\* and map and completed once
C5_Witness ==
  \E r \in Reqs :
    /\ reqs[r].decidedBy = "import" /\ Len(reqs[r].nodes) = NumInc
    /\ reqs[r].writes = 2 /\ Signals(reqs[r]) = 1

\* C6: no request both writes the compiled output or the map to a file
\* and sends the compiled text in the response, whatever the `response`
\* option is.
C6_ExclusiveStrategies ==
  \A r \in Reqs : ~(reqs[r].writes > 0 /\ reqs[r].resWrites > 0)

\* C7: a request with another method, a path not ending in .css or a path
\* without the configured prefix has called next() once without error and
\* has done nothing else; the step in which it arrives changes neither
\* the ledger nor the files.
C7_NotApplicableDelegates ==
  /\ [](\A r \in Reqs :
          (reqs[r].pc # "idle" /\ ~Applicable(reqs[r].method, reqs[r].url))
            => /\ reqs[r].pc = "done" /\ ~InFlight(reqs[r])
               /\ reqs[r].nexts = 1 /\ reqs[r].nextArg = NoErr
               /\ reqs[r].fsOps = 0 /\ reqs[r].stats = 0
               /\ reqs[r].compiles = 0 /\ reqs[r].renders = 0
               /\ reqs[r].hookLog = <<>> /\ reqs[r].sassMiddlewareError = NoErr
               /\ reqs[r].resWrites = 0 /\ reqs[r].resp = NoResp
               /\ reqs[r].writes = 0)
  /\ [][\A r \in Reqs :
          (Arrives(r) /\ ~Applicable(reqs'[r].method, reqs'[r].url))
            => imports' = imports /\ fs' = fs]_vars

\* C7 witness: a GET for a .css path that lacks the configured prefix was
\* delegated
C7_Witness ==
  \E r \in Reqs :
    /\ reqs[r].method = "GET" /\ EndsWith(reqs[r].url, CssExt)
    /\ options.prefix # <<>> /\ ~StartsWith(reqs[r].url, options.prefix)
    /\ reqs[r].pc = "done" /\ reqs[r].nexts = 1

\* C8: with `response` true, a request whose compile has returned a result
\* has written exactly one response: status 200, Content-Type text/css,
\* max-age as configured (0 when not configured), the body that compile
\* returned; it has not called next().
C8_MemoryResponse ==
  \A r \in Reqs :
    (options.response = "true" /\ reqs[r].data # NoData)
      => /\ reqs[r].resWrites = 1 /\ reqs[r].nexts = 0
         /\ reqs[r].resp =
              [status |-> 200, contentType |-> "text/css",
               maxAge |-> IF options.maxAge = <<>> THEN 0
                                                   ELSE ConfiguredMaxAge,
               body |-> reqs[r].reading]
         /\ reqs[r].reading # NoData

\* C8 witness: a HEAD request answered from memory with max-age not
\* configured
C8_Witness ==
  \E r \in Reqs :
    /\ options.response = "true" /\ options.maxAge = <<>>
    /\ reqs[r].method = "HEAD"
    /\ reqs[r].resp.status = 200 /\ reqs[r].resp.maxAge = 0
    /\ reqs[r].resp.body = 1

\* the compile capability has reported an error to the request
CompileFailed(q) ==
  q.nextArg = "CompileError" \/ \E i \in 1 .. Len(q.hookLog) : q.hookLog[i] = "CompileError"

\* C9: a request whose compile reported an error has called the error hook
\* once with that error, has called next() once with it, has started no
\* write and written no response; the step that reports the error leaves
\* the ledger as it was, and with one request at a time the entry stays
\* unresolved.
C9_CompileError ==
  /\ [](\A r \in Reqs :
          CompileFailed(reqs[r])
            => /\ reqs[r].hookLog = <<"CompileError">>
               /\ reqs[r].nexts = 1 /\ reqs[r].nextArg = "CompileError"
               /\ reqs[r].resWrites = 0 /\ reqs[r].writes = 0
               /\ reqs[r].cssBranch = "none" /\ reqs[r].mapBranch = "none"
               /\ ~InFlight(reqs[r])
               /\ ~Lookup(reqs[r].sassPath).resolved)
  /\ [][\A r \in Reqs :
          (reqs[r].pc = "render" /\ CompileFailed(reqs'[r]))
            => imports' = imports]_vars

\* C9 witness: a compile decided by a changed source failed; the ledger
\* entry that was resolved before is now unresolved
C9_Witness ==
  \E r \in Reqs :
    /\ CompileFailed(reqs[r]) /\ reqs[r].decidedBy = "source"
    /\ SassFile \in DOMAIN imports /\ ~imports[SassFile].resolved

\* C10: the first request for a source that arrives after a compile of
\* that source was reported failed calls compile(), whatever the
\* modification times are and whatever other requests did meanwhile.
C10_RetryAfterFailure ==
  [][\A r \in Reqs :
       (Arrives(r) /\ ForSource(reqs'[r]) /\ SassFile \in failed)
         => reqs'[r].pc = "exists" /\ reqs'[r].compiles = 1]_vars

\* the errors a write branch can report
WriteErrors == {"MkdirCssError", "WriteCssError", "MkdirMapError", "WriteMapError"}

\* number of write branches of the request that have reported
BranchesDone(q) ==
  (IF q.cssBranch = "done" THEN 1 ELSE 0) + (IF q.mapBranch = "done" THEN 1 ELSE 0)

\* C11: in the write phase every branch that has reported either wrote its
\* file or called the error hook once with its write error, and is marked
\* done; a step in which one branch reports leaves the other branch where
\* it was; once nothing is outstanding the request has completed once, and
\* with `response` false it has called next() with a write error of its
\* own when one occurred and with no error when none did.
C11_WriteErrors ==
  /\ [](\A r \in Reqs :
          reqs[r].cssBranch # "none"
            => /\ BranchesDone(reqs[r]) = reqs[r].writes + Len(reqs[r].hookLog)
               /\ \A i \in 1 .. Len(reqs[r].hookLog) : reqs[r].hookLog[i] \in WriteErrors
               /\ reqs[r].cssBranch = "done" => reqs[r].cssDone
               /\ reqs[r].mapBranch = "done" => reqs[r].sourceMapDone
               /\ ~InFlight(reqs[r])
                    => /\ Signals(reqs[r]) = 1
                       /\ reqs[r].cssBranch = "done"
                       /\ sourceMap => reqs[r].mapBranch = "done"
               /\ (~InFlight(reqs[r]) /\ options.response = "false")
                    => /\ reqs[r].nexts = 1
                       /\ reqs[r].hookLog = <<>> => reqs[r].nextArg = NoErr
                       /\ reqs[r].hookLog # <<>> =>
                            \E i \in 1 .. Len(reqs[r].hookLog) :
                              reqs[r].nextArg = reqs[r].hookLog[i])
  /\ [][\A r \in Reqs :
          /\ (reqs[r].cssBranch # "none" /\ reqs'[r].cssBranch # reqs[r].cssBranch)
               => reqs'[r].mapBranch = reqs[r].mapBranch
          /\ (reqs[r].mapBranch # "none" /\ reqs'[r].mapBranch # reqs[r].mapBranch)
               => reqs'[r].cssBranch = reqs[r].cssBranch]_vars

\* C11 witness: in file mode the output branch failed at mkdir, the map was
\* written all the same, and next() received the write error
C11_Witness ==
  \E r \in Reqs :
    /\ options.response = "false" /\ sourceMap
    /\ reqs[r].hookLog = <<"MkdirCssError">> /\ reqs[r].writes = 1
    /\ reqs[r].nexts = 1 /\ reqs[r].nextArg = "MkdirCssError"
    /\ (reqs[r].cssPath \o MapExt) \in DOMAIN fs

\* C12: a matching request whose source is missing or cannot be stat'ed has,
\* once started, called next() once without error and nothing else: no
\* error hook, no compile capability, no write, no response; no step of
\* such a request changes the ledger or the files, whether the absence is
\* seen by the source stat or by the existence test of compile().
C12_MissingSourceSkipped ==
  /\ [](\A r \in Reqs :
          ( /\ reqs[r].pc # "idle"
            /\ Applicable(reqs[r].method, reqs[r].url)
            /\ ~Exists(reqs[r].sassPath) )
            => /\ reqs[r].pc \in {"statSass", "exists", "done"}
               /\ reqs[r].hookLog = <<>> /\ reqs[r].sassMiddlewareError = NoErr
               /\ reqs[r].renders = 0 /\ reqs[r].writes = 0
               /\ reqs[r].resWrites = 0
               /\ reqs[r].cssBranch = "none" /\ reqs[r].mapBranch = "none"
               /\ reqs[r].pc = "done"
                    => reqs[r].nexts = 1 /\ reqs[r].nextArg = NoErr)
  /\ [][\A r \in Reqs :
          ( /\ reqs'[r] # reqs[r]
            /\ Applicable(reqs'[r].method, reqs'[r].url)
            /\ ~Exists(reqs'[r].sassPath) )
            => imports' = imports /\ fs' = fs]_vars

\* C12 witness: with force, the existence test of compile() found no
\* source; the request was delegated and the resolved ledger entry is
\* still there
C12_Witness ==
  \E r \in Reqs :
    /\ options.force /\ ForSource(reqs[r]) /\ ~Exists(SassFile)
    /\ reqs[r].compiles = 1 /\ reqs[r].pc = "done" /\ reqs[r].nexts = 1
    /\ Lookup(SassFile).resolved /\ Len(Lookup(SassFile).nodes) = NumInc

\* C13: without force, the step in which a request declares its source up
\* to date finds a resolved ledger entry for the source, and the request
\* has stat'ed exactly the includes that entry lists, all of them have
\* reported and none was found changed; this under every interleaving
\* with other requests for the source.
C13_UpToDateChecksIncludes ==
  [][\A r \in Reqs :
       ( /\ ~force
         /\ reqs'[r].decidedBy = "uptodate" /\ reqs[r].decidedBy # "uptodate" )
         => /\ Lookup(reqs'[r].sassPath).resolved
            /\ reqs'[r].nodes = Lookup(reqs'[r].sassPath).nodes
            /\ reqs'[r].waiting = {} /\ reqs'[r].pending = 0
            /\ reqs'[r].changed = <<>>]_vars

Reported(q) == (1 .. Len(q.nodes)) \ q.waiting

\* C15: for a non-empty include list a stat is issued for every listed
\* include; while one of them has not reported the request has decided
\* nothing; the list of changed includes holds, once each, exactly the
\* reported includes whose stat failed or whose mtime is >= the output's;
\* after the last report the decision has been taken once: compile() when
\* that list is not empty, next() otherwise.
C15_FanOutJoin ==
  \A r \in Reqs :
    (ForSource(reqs[r]) /\ reqs[r].nodes # <<>>) =>
      LET q == reqs[r] IN
      /\ q.stats = 2 + Len(q.nodes)
      /\ q.pending = Cardinality(q.waiting)
      /\ q.waiting \subseteq 1 .. Len(q.nodes)
      /\ Len(q.changed) =
           Cardinality({i \in Reported(q) :
                          Stat(q.nodes[i]).err # NoErr
                            \/ Stat(q.nodes[i]).mtime >= q.time})
      /\ \A i \in Reported(q) :
           (Stat(q.nodes[i]).err # NoErr \/ Stat(q.nodes[i]).mtime >= q.time)
             <=> \E k \in 1 .. Len(q.changed) : q.changed[k] = q.nodes[i]
      /\ q.waiting # {}
           => /\ q.pc = "checkImports" /\ q.decidedBy = "none"
              /\ q.compiles = 0 /\ q.nexts = 0
      /\ q.waiting = {}
           => /\ q.decidedBy \in {"import", "uptodate"}
              /\ q.decidedBy = "import" <=> q.changed # <<>>
              /\ q.decidedBy = "import" => q.compiles = 1
              /\ q.decidedBy = "uptodate"
                   => q.compiles = 0 /\ q.nexts = 1 /\ q.pc = "done"

\* C15 witness: two includes, the second reported first and its stat
\* failed, the first is as new as the output; both are listed as changed
\* and the request compiles
C15_Witness ==
  \E r \in Reqs :
    LET q == reqs[r] IN
    /\ ForSource(q) /\ Len(q.nodes) = 2
    /\ q.changed = <<q.nodes[2], q.nodes[1]>>
    /\ Stat(q.nodes[2]).err # NoErr
    /\ Stat(q.nodes[1]).err = NoErr /\ Stat(q.nodes[1]).mtime = q.time
    /\ q.decidedBy = "import" /\ q.compiles = 1

\* C16: in the step where the output stat of a request reports, a stat
\* that failed with "not found" makes the request call compile(); a stat
\* that failed otherwise makes it call the error hook once and next() with
\* that error, without compile and with the ledger unchanged.
C16_OutputStat ==
  [][\A r \in Reqs :
       (reqs[r].pc = "statCss" /\ reqs'[r] # reqs[r]) =>
         LET err == Stat(reqs[r].cssPath).err IN
         /\ err = "ENOENT"
              => /\ reqs'[r].pc = "exists" /\ reqs'[r].compiles = 1
                 /\ reqs'[r].hookLog = <<>> /\ reqs'[r].nexts = 0
         /\ err \notin {NoErr, "ENOENT"}
              => /\ reqs'[r].hookLog = <<err>>
                 /\ reqs'[r].sassMiddlewareError = err
                 /\ reqs'[r].pc = "done" /\ ~InFlight(reqs'[r])
                 /\ reqs'[r].nexts = 1 /\ reqs'[r].nextArg = err
                 /\ reqs'[r].compiles = 0 /\ reqs'[r].renders = 0
                 /\ reqs'[r].resWrites = 0
                 /\ imports' = imports /\ fs' = fs]_vars

\* C16 witness: the output could not be stat'ed for a reason other than
\* absence; the request was delegated with that error and the ledger entry
\* still lists its includes
C16_Witness ==
  \E r \in Reqs :
    /\ ForSource(reqs[r]) /\ CssFile \in denied
    /\ reqs[r].hookLog = <<"EACCES">> /\ reqs[r].nextArg = "EACCES"
    /\ reqs[r].nexts = 1 /\ reqs[r].compiles = 0
    /\ Lookup(SassFile).resolved /\ Len(Lookup(SassFile).nodes) = NumInc

\* C17 as stated: the error slot holds the first failure of the request,
\* and in file mode next() receives that first failure.
C17_FirstFailure ==
  \A r \in Reqs :
    reqs[r].hookLog # <<>>
      => /\ reqs[r].sassMiddlewareError = reqs[r].hookLog[1]
         /\ (options.response = "false" /\ reqs[r].nexts = 1)
              => reqs[r].nextArg = reqs[r].hookLog[1]

\* C17: the error slot holds the latest failure of the request: every
\* failure replaces the one before, and in file mode next() receives the
\* failure that occurred last.
C17_LastFailure ==
  \A r \in Reqs :
    reqs[r].hookLog # <<>>
      => /\ reqs[r].sassMiddlewareError = reqs[r].hookLog[Len(reqs[r].hookLog)]
         /\ (options.response = "false" /\ reqs[r].nexts = 1)
              => reqs[r].nextArg = reqs[r].hookLog[Len(reqs[r].hookLog)]

\* C17 witness: in file mode the output write failed, then the map write
\* failed, and next() received the map write's error
C17_Witness ==
  \E r \in Reqs :
    /\ options.response = "false"
    /\ reqs[r].hookLog = <<"WriteCssError", "WriteMapError">>
    /\ reqs[r].nexts = 1 /\ reqs[r].nextArg = "WriteMapError"

\* C18: without force, when the output stat of a request reports an output
\* whose mtime is not later than the source's (equal included), the
\* request calls compile().
C18_EqualMtimeCompiles ==
  [][\A r \in Reqs :
       ( /\ ~force /\ reqs[r].pc = "statCss" /\ reqs'[r] # reqs[r]
         /\ Stat(reqs[r].cssPath).err = NoErr
         /\ reqs[r].sassMtime >= Stat(reqs[r].cssPath).mtime )
         => reqs'[r].pc = "exists" /\ reqs'[r].compiles = 1]_vars

\* C19: when every callback eventually fires, a request whose callbacks
\* are outstanding eventually has none outstanding and has completed:
\* it has called next() or written the response, once.
C19_EventuallyCompletes ==
  \A r \in Reqs :
    [](reqs[r].pc \notin {"idle", "done"}
         => <>(~InFlight(reqs[r]) /\ Signals(reqs[r]) = 1))

\* C19 witness: a request completed after two write failures while the
\* other request's compile had replaced the ledger entry it had cleared
C19_Witness ==
  \E r \in Reqs : \E x \in Reqs \ {r} :
    /\ ~InFlight(reqs[r]) /\ Signals(reqs[r]) = 1
    /\ Len(reqs[r].hookLog) = 2 /\ reqs[r].renders = 1
    /\ reqs[r].midCompile
    /\ reqs[x].renders = 1 /\ reqs[x].pc = "done"

\* C20: in file mode, when no callback is outstanding, every request has
\* compiled and written without error, and one of them compiled the
\* current version of the source, the output file holds the compilation
\* of the current version.
C20_NoStaleOverwrite ==
  ( /\ options.response = "false"
    /\ Quiescent
    /\ \A r \in Reqs :
         /\ reqs[r].pc = "done" /\ reqs[r].renders = 1
         /\ reqs[r].hookLog = <<>> /\ reqs[r].writes >= 1
    /\ \E r \in Reqs : reqs[r].data = fs[SassFile].data )
    => /\ CssFile \in DOMAIN fs
       /\ fs[CssFile].data = fs[SassFile].data

=============================================================================
